---- MODULE Spec2Model ----
(***************************************************************************)
(* Facade.cpp: two stateless subsystems, a Facade that holds one raw       *)
(* pointer to each, and a client (ClientCode / main).                      *)
(*                                                                         *)
(* A text is modelled as the sequence of its newline-terminated lines, so  *)
(* std::string += is sequence concatenation.  A heap object is identified  *)
(* by its allocation; `new` returns an allocation not handed out before.   *)
(* cout holds the text of the latest write to std::cout; rel[o] lists the  *)
(* parties (CLIENT or a Facade) that executed `delete` on o, in order.     *)
(* The program is single threaded, so each call runs to completion in one  *)
(* step; op keeps the activation record of the latest Facade::Operation.   *)
(* Deleting an already deleted object and calling a member function        *)
(* through a dangling pointer are undefined behaviour: the statement       *)
(* either goes on as if the object were there (run = "ub") or aborts the   *)
(* program (run = "crashed").  A run is followed up to and including its   *)
(* first undefined statement: the language says nothing of what follows.   *)
(***************************************************************************)
EXTENDS Integers, Sequences, FiniteSets, TLC

MaxObj == 4
MaxFacades == 2

NULL == 0
CLIENT == 0
NOBODY == -1

Obj == 1..MaxObj
Fid == 1..MaxFacades
Types == {"Subsystem1", "Subsystem2"}

VARIABLES heap, creator, rel, fac, clientHolds, op, cout, run, mainPc, locals

vars == <<heap, creator, rel, fac, clientHolds, op, cout, run, mainPc, locals>>

----------------------------------------------------------------------------
\* Subsystem1 / Subsystem2 member functions: each returns one fixed line.

MemberFnSameLine(type, fn) ==
    IF type = "Subsystem1" THEN <<"Subsystem1: Ready!\n">>
                           ELSE <<"Subsystem2: Get ready!\n">>

MemberFn(type, fn) ==
    IF type = "Subsystem1"
    THEN IF fn = "Operation1" THEN <<"Subsystem1: Ready!\n">>
                              ELSE <<"Subsystem1: Go!\n">>
    ELSE IF fn = "Operation1" THEN <<"Subsystem2: Get ready!\n">>
                              ELSE <<"Subsystem2: Fire!\n">>

\* The static type of the two Facade fields.
SlotType(slot) == IF slot = 1 THEN "Subsystem1" ELSE "Subsystem2"

Lit(t) == [k |-> "lit", text |-> <<t>>, slot |-> 0, fn |-> ""]

Call(slot, fn) == [k |-> "call", text |-> <<>>, slot |-> slot, fn |-> fn]

OperationBodySwapped ==
    << Lit("Facade initializes subsystems:\n"),
       Call(2, "Operation1"),
       Call(1, "Operation1"),
       Lit("Facade orders subsystems to perform the action:\n"),
       Call(1, "OperationN"),
       Call(2, "OperationZ") >>

\* The statements of Facade::Operation, in program order.
OperationBody ==
    << Lit("Facade initializes subsystems:\n"),
       Call(1, "Operation1"),
       Call(2, "Operation1"),
       Lit("Facade orders subsystems to perform the action:\n"),
       Call(1, "OperationN"),
       Call(2, "OperationZ") >>

StoredFresh(arg, fresh) == fresh

\* Facade::Facade, one parameter: the pointer the field receives.
Stored(arg, fresh) == IF arg # NULL THEN arg ELSE fresh

Field(f, slot) == IF slot = 1 THEN fac[f].subsystem1_ ELSE fac[f].subsystem2_

\* The constructor argument that was passed for a slot (NULL when omitted).
Arg(f, slot) == IF slot = 1 THEN fac[f].arg1 ELSE fac[f].arg2

DtorBodyOwnedOnly(f) ==
    (IF fac[f].arg1 = NULL THEN <<fac[f].subsystem1_>> ELSE <<>>)
    \o (IF fac[f].arg2 = NULL THEN <<fac[f].subsystem2_>> ELSE <<>>)

DtorBodyFirstOnly(f) == <<fac[f].subsystem1_>>

DtorBodyTwice(f) == <<fac[f].subsystem1_, fac[f].subsystem2_, fac[f].subsystem1_>>

\* Facade::~Facade: the pointers it deletes, in program order.
DtorBody(f) == <<fac[f].subsystem1_, fac[f].subsystem2_>>

----------------------------------------------------------------------------
\* Heap.

Unalloc == [type |-> "none", live |-> FALSE]

IsFresh(o) == o \in Obj /\ heap[o].type = "none"

IsLive(p) == p \in Obj /\ heap[p].live

HeapAfterDeleteType(h, p) ==
    IF p = NULL THEN h
    ELSE [o \in Obj |-> IF h[o].type = h[p].type THEN [h[o] EXCEPT !.live = FALSE] ELSE h[o]]

\* delete p: the object is released (delete of a null pointer does nothing).
HeapAfterDelete(h, p) == IF p = NULL THEN h ELSE [h EXCEPT ![p].live = FALSE]

RelAfterDelete(r, p, who) == IF p = NULL THEN r ELSE [r EXCEPT ![p] = Append(@, who)]

NoOp == [self |-> 0, pc |-> 0, result |-> <<>>, log |-> <<>>]

NoFacade == [st |-> "unalloc", subsystem1_ |-> NULL, subsystem2_ |-> NULL,
             arg1 |-> NULL, arg2 |-> NULL]

NoLocals == [subsystem1 |-> NULL, subsystem2 |-> NULL, facade |-> NULL, facade2 |-> NULL]

Init ==
    /\ heap = [o \in Obj |-> Unalloc]
    /\ creator = [o \in Obj |-> NOBODY]
    /\ rel = [o \in Obj |-> <<>>]
    /\ fac = [f \in Fid |-> NoFacade]
    /\ clientHolds = {}
    /\ op = NoOp
    /\ cout = <<>>
    /\ run = "ok"
    /\ mainPc = 106
    /\ locals = NoLocals

----------------------------------------------------------------------------
\* Facade::Operation, statement by statement.

RECURSIVE Exec(_, _)
\* The activation a of Facade::Operation after running on to statement stop.
Exec(a, stop) ==
    IF a.pc >= stop \/ a.pc > Len(OperationBody) THEN a
    ELSE LET s == OperationBody[a.pc]
         IN Exec([self |-> a.self,
                  pc |-> a.pc + 1,
                  result |-> a.result \o (IF s.k = "lit" THEN s.text
                                          ELSE MemberFn(SlotType(s.slot), s.fn)),
                  log |-> Append(a.log, IF s.k = "lit" THEN <<"literal", s.text[1]>>
                                        ELSE <<SlotType(s.slot), s.fn>>)],
                 stop)

\* The calls of Operation that go through a dangling pointer.
Dangling(f) == {i \in 1..Len(OperationBody) :
                  /\ OperationBody[i].k = "call"
                  /\ ~IsLive(Field(f, OperationBody[i].slot))}

OperationReleasing(f) ==
    /\ fac[f].st = "live"
    /\ \E k \in Dangling(f) \cup {0} :
         LET a == Exec([self |-> f, pc |-> 1, result |-> <<>>, log |-> <<>>],
                       IF k = 0 THEN Len(OperationBody) + 1 ELSE k)
         IN /\ op' = a
            /\ cout' = IF k = 0 THEN a.result ELSE cout
            /\ run' = IF k # 0 THEN "crashed"
                       ELSE IF Dangling(f) # {} THEN "ub" ELSE run
    /\ heap' = HeapAfterDelete(heap, fac[f].subsystem1_)
    /\ UNCHANGED <<creator, rel, fac, clientHolds>>

\* facade->Operation() and the write of its result (ClientCode); k is the
\* statement at which the program aborts, 0 when it does not.
Operation(f) ==
    /\ fac[f].st = "live"
    /\ \E k \in Dangling(f) \cup {0} :
         LET a == Exec([self |-> f, pc |-> 1, result |-> <<>>, log |-> <<>>],
                       IF k = 0 THEN Len(OperationBody) + 1 ELSE k)
         IN /\ op' = a
            /\ cout' = IF k = 0 THEN a.result ELSE cout
            /\ run' = IF k # 0 THEN "crashed"
                       ELSE IF Dangling(f) # {} THEN "ub" ELSE run
    /\ UNCHANGED <<heap, creator, rel, fac, clientHolds>>

Returned == op.self # 0 /\ op.pc = Len(OperationBody) + 1

----------------------------------------------------------------------------
\* Facade::~Facade, statement by statement.

RECURSIVE DtorAt(_, _)
\* Heap, release log and undefined-behaviour flag after the first n deletes.
DtorAt(f, n) ==
    IF n = 0 THEN [heap |-> heap, rel |-> rel, ub |-> FALSE]
    ELSE LET d == DtorAt(f, n - 1)
             p == DtorBody(f)[n]
         IN [heap |-> HeapAfterDelete(d.heap, p),
             rel |-> RelAfterDelete(d.rel, p, f),
             ub |-> (d.ub \/ (p # NULL /\ ~d.heap[p].live))]

\* The deletes of ~Facade whose operand is already released when they run.
DoubleDeletes(f) == {i \in 1..Len(DtorBody(f)) :
                       LET p == DtorBody(f)[i]
                       IN p # NULL /\ ~DtorAt(f, i - 1).heap[p].live}

\* delete facade; k is the delete at which the program aborts, 0 when it
\* does not.
Destroy(f) ==
    /\ fac[f].st = "live"
    /\ \E k \in DoubleDeletes(f) \cup {0} :
         LET d == DtorAt(f, IF k = 0 THEN Len(DtorBody(f)) ELSE k)
         IN /\ heap' = d.heap
            /\ rel' = d.rel
            /\ run' = IF k # 0 THEN "crashed" ELSE IF d.ub THEN "ub" ELSE run
            /\ fac' = [fac EXCEPT ![f].st = IF k = 0 THEN "deleted" ELSE "destroying"]
    /\ UNCHANGED <<creator, clientHolds, op, cout>>

----------------------------------------------------------------------------
\* Allocation.

\* new Subsystem1 / new Subsystem2 in client code.
NewSubsystem(o, t) ==
    /\ IsFresh(o)
    /\ heap' = [heap EXCEPT ![o] = [type |-> t, live |-> TRUE]]
    /\ creator' = [creator EXCEPT ![o] = CLIENT]
    /\ clientHolds' = clientHolds \cup {o}
    /\ UNCHANGED <<rel, fac, op, cout, run>>

\* new Facade(a1, a2); n1, n2 are the allocations made by the constructor
\* (NULL when the matching argument is supplied).
Construct(f, a1, a2, n1, n2) ==
    /\ fac[f].st = "unalloc"
    /\ IF a1 = NULL THEN IsFresh(n1) ELSE n1 = NULL
    /\ IF a2 = NULL THEN IsFresh(n2) /\ n2 # n1 ELSE n2 = NULL
    /\ heap' = [o \in Obj |->
                  IF o = n1 THEN [type |-> "Subsystem1", live |-> TRUE]
                  ELSE IF o = n2 THEN [type |-> "Subsystem2", live |-> TRUE]
                  ELSE heap[o]]
    /\ creator' = [o \in Obj |-> IF o \in {n1, n2} THEN f ELSE creator[o]]
    /\ fac' = [fac EXCEPT ![f] = [st |-> "live",
                                  subsystem1_ |-> Stored(a1, n1),
                                  subsystem2_ |-> Stored(a2, n2),
                                  arg1 |-> a1, arg2 |-> a2]]
    /\ UNCHANGED <<rel, clientHolds, op, cout, run>>

----------------------------------------------------------------------------
\* An arbitrary client of the Facade interface.  It is explored up to
\* renaming of allocations: its `new` expressions receive the lowest
\* allocation not handed out before.

HeldOfType(t) == {o \in clientHolds : heap[o].type = t}

InUse(o) == \E f \in Fid : fac[f].st \in {"live", "destroying"}
                           /\ o \in {fac[f].subsystem1_, fac[f].subsystem2_}

FreshObjs == {o \in Obj : IsFresh(o)}

Lowest(S) == CHOOSE x \in S : \A y \in S : x <= y

FreshFacades == {f \in Fid : fac[f].st = "unalloc"}

ClientNewSubsystem ==
    /\ run = "ok"
    /\ FreshObjs # {}
    /\ \E t \in Types : NewSubsystem(Lowest(FreshObjs), t)
    /\ UNCHANGED <<mainPc, locals>>

ClientNewFacade ==
    /\ run = "ok"
    /\ FreshFacades # {}
    /\ \E a1 \in HeldOfType("Subsystem1") \cup {NULL},
          a2 \in HeldOfType("Subsystem2") \cup {NULL} :
          LET need == (IF a1 = NULL THEN 1 ELSE 0) + (IF a2 = NULL THEN 1 ELSE 0)
              n1 == IF a1 = NULL /\ FreshObjs # {} THEN Lowest(FreshObjs) ELSE NULL
              rest == FreshObjs \ {n1}
              n2 == IF a2 = NULL /\ rest # {} THEN Lowest(rest) ELSE NULL
          IN /\ Cardinality(FreshObjs) >= need
             /\ Construct(Lowest(FreshFacades), a1, a2, n1, n2)
    /\ UNCHANGED <<mainPc, locals>>

ClientCode ==
    /\ run = "ok"
    /\ \E f \in Fid : Operation(f)
    /\ UNCHANGED <<mainPc, locals>>

ClientDeleteFacade ==
    /\ run = "ok"
    /\ \E f \in Fid : Destroy(f)
    /\ UNCHANGED <<mainPc, locals>>

\* The client releases an instance it created, once no facade uses it.
ClientRelease ==
    /\ run = "ok"
    /\ \E o \in clientHolds :
         /\ ~InUse(o)
         /\ \E crash \in (IF IsLive(o) THEN {FALSE} ELSE {FALSE, TRUE}) :
              run' = IF crash THEN "crashed" ELSE IF IsLive(o) THEN run ELSE "ub"
         /\ heap' = HeapAfterDelete(heap, o)
         /\ rel' = RelAfterDelete(rel, o, CLIENT)
         /\ clientHolds' = clientHolds \ {o}
    /\ UNCHANGED <<creator, fac, op, cout, mainPc, locals>>

Next ==
    \/ ClientNewSubsystem
    \/ ClientNewFacade
    \/ ClientCode
    \/ ClientDeleteFacade
    \/ ClientRelease

Spec == Init /\ [][Next]_vars

----------------------------------------------------------------------------
\* main(), line by line; mainPc is the line to run next, 0 after return.

Main106 ==
    /\ run = "ok" /\ mainPc = 106
    /\ \E o \in Obj : NewSubsystem(o, "Subsystem1")
                      /\ locals' = [locals EXCEPT !.subsystem1 = o]
    /\ mainPc' = 107

Main107 ==
    /\ run = "ok" /\ mainPc = 107
    /\ \E o \in Obj : NewSubsystem(o, "Subsystem2")
                      /\ locals' = [locals EXCEPT !.subsystem2 = o]
    /\ mainPc' = 109

Main109 ==
    /\ run = "ok" /\ mainPc = 109
    /\ \E f \in Fid : Construct(f, locals.subsystem1, locals.subsystem2, NULL, NULL)
                      /\ locals' = [locals EXCEPT !.facade = f]
    /\ mainPc' = 110

Main110 ==
    /\ run = "ok" /\ mainPc = 110
    /\ Operation(locals.facade)
    /\ mainPc' = 112
    /\ UNCHANGED locals

Main112 ==
    /\ run = "ok" /\ mainPc = 112
    /\ cout' = <<"\n">>
    /\ mainPc' = 114
    /\ UNCHANGED <<heap, creator, rel, fac, clientHolds, op, run, locals>>

Main114 ==
    /\ run = "ok" /\ mainPc = 114
    /\ \E f \in Fid, n1, n2 \in Obj : Construct(f, NULL, NULL, n1, n2)
                                     /\ locals' = [locals EXCEPT !.facade2 = f]
    /\ mainPc' = 115

Main115 ==
    /\ run = "ok" /\ mainPc = 115
    /\ Operation(locals.facade2)
    /\ mainPc' = 117
    /\ UNCHANGED locals

Main117 ==
    /\ run = "ok" /\ mainPc = 117
    /\ Destroy(locals.facade)
    /\ mainPc' = 119
    /\ UNCHANGED locals

Main119 ==
    /\ run = "ok" /\ mainPc = 119
    /\ mainPc' = 0
    /\ UNCHANGED <<heap, creator, rel, fac, clientHolds, op, cout, run, locals>>

MainNext ==
    \/ Main106
    \/ Main107
    \/ Main109
    \/ Main110
    \/ Main112
    \/ Main114
    \/ Main115
    \/ Main117
    \/ Main119

MainSpec == Init /\ [][MainNext]_vars

----------------------------------------------------------------------------
\* Properties.

Range(q) == {q[i] : i \in 1..Len(q)}

Slots == {1, 2}

Built(f) == fac[f].st # "unalloc"

RefsLive(f) == \A slot \in Slots : IsLive(Field(f, slot))

Fields(f) == {Field(f, slot) : slot \in Slots}

Shares(f, g) == Fields(f) \cap Fields(g) # {}

\* A slot is facade-owned when ~Facade releases the instance it refers to.
Owned(f, slot) == Field(f, slot) \in Range(DtorBody(f))

\* The facades that were constructed with o as an argument.
Given(o) == {f \in Fid : Built(f) /\ o \in {fac[f].arg1, fac[f].arg2}}

ExpectedText ==
    << "Facade initializes subsystems:\n",
       "Subsystem1: Ready!\n",
       "Subsystem2: Get ready!\n",
       "Facade orders subsystems to perform the action:\n",
       "Subsystem1: Go!\n",
       "Subsystem2: Fire!\n" >>

ExpectedLog ==
    << <<"literal", "Facade initializes subsystems:\n">>,
       <<"Subsystem1", "Operation1">>,
       <<"Subsystem2", "Operation1">>,
       <<"literal", "Facade orders subsystems to perform the action:\n">>,
       <<"Subsystem1", "OperationN">>,
       <<"Subsystem2", "OperationZ">> >>

\* C1: whenever Facade::Operation() returns, whichever of the two constructor
\* arguments were supplied or omitted, the text it returns is exactly the six
\* expected lines.
C1_OperationText == Returned => op.result = ExpectedText

\* Operation() has returned on a facade built from one supplied and one
\* omitted argument.
C1_Witness ==
    /\ Returned /\ run = "ok"
    /\ fac[op.self].arg1 # NULL /\ fac[op.self].arg2 = NULL

\* C2 as stated: a destroyed facade has not released the instances that were
\* supplied to its constructor.
C2_BorrowedSurvive ==
    \A f \in Fid, slot \in Slots :
        (fac[f].st = "deleted" /\ Arg(f, slot) # NULL)
            => f \notin Range(rel[Arg(f, slot)])

\* C2 amended: once ~Facade() has run, every instance that was supplied to
\* the constructor has been released by that facade and is no longer live.
C2_SuppliedReleased ==
    \A f \in Fid, slot \in Slots :
        (fac[f].st = "deleted" /\ Arg(f, slot) # NULL)
            => (f \in Range(rel[Arg(f, slot)]) /\ ~IsLive(Arg(f, slot)))

\* A facade built from two supplied instances has been destroyed.
C2_Witness ==
    \E f \in Fid : /\ fac[f].st = "deleted" /\ run = "ok"
                   /\ fac[f].arg1 # NULL /\ fac[f].arg2 # NULL

\* C3 as stated: every instance is released at most once, a client-created
\* one by the client only, a facade-created one by its facade only.
C3_SingleReleaser ==
    \A o \in Obj :
        /\ Len(rel[o]) <= 1
        /\ creator[o] = CLIENT => Range(rel[o]) \subseteq {CLIENT}
        /\ creator[o] \in Fid => Range(rel[o]) \subseteq {creator[o]}

\* C3 amended: a facade-created instance is released at most once, by its
\* facade only; a client-created instance is released by every destroyed
\* facade it was supplied to, by nobody but those facades and the client, and
\* by each of them at most once.
C3_Releasers ==
    \A o \in Obj :
        /\ creator[o] \in Fid =>
              (Len(rel[o]) <= 1 /\ Range(rel[o]) \subseteq {creator[o]})
        /\ creator[o] = CLIENT =>
              /\ \A f \in Given(o) : fac[f].st = "deleted" => f \in Range(rel[o])
              /\ Range(rel[o]) \subseteq Given(o) \cup {CLIENT}
              /\ Len(rel[o]) = Cardinality(Range(rel[o]))

\* A client-created instance has been released once, by the teardown of the
\* facade it was supplied to.
C3_Witness ==
    \E o \in Obj, f \in Fid :
        creator[o] = CLIENT /\ rel[o] = <<f>> /\ f \in Given(o) /\ run = "ok"

\* C4: a destroyed facade that was constructed without arguments has released
\* the two instances its constructor created, each exactly once, and nothing
\* else; nobody else has released them.
C4_OwnedReleasedOnce ==
    \A f \in Fid :
        (fac[f].st = "deleted" /\ fac[f].arg1 = NULL /\ fac[f].arg2 = NULL) =>
            /\ \A slot \in Slots : /\ creator[Field(f, slot)] = f
                                   /\ rel[Field(f, slot)] = <<f>>
            /\ Field(f, 1) # Field(f, 2)
            /\ \A o \in Obj : f \in Range(rel[o]) => o \in Fields(f)

\* A facade constructed without arguments has been destroyed.
C4_Witness ==
    \E f \in Fid : /\ fac[f].st = "deleted" /\ run = "ok"
                   /\ fac[f].arg1 = NULL /\ fac[f].arg2 = NULL

\* C5: the statements of one Operation() call run in program order: what has
\* run so far is a prefix of header, Subsystem1::Operation1,
\* Subsystem2::Operation1, header, Subsystem1::OperationN,
\* Subsystem2::OperationZ, and a call that is not aborted runs all six.
C5_CallOrder ==
    op.self # 0 =>
        /\ op.log = SubSeq(ExpectedLog, 1, op.pc - 1)
        /\ run # "crashed" => op.log = ExpectedLog

\* An Operation() call has run to its return.
C5_Witness == Returned /\ run = "ok" /\ Len(op.log) = 6

\* C6 as stated: a live facade holds two non-null references and both
\* referenced instances are live.
C6_RefsLive ==
    \A f \in Fid : fac[f].st = "live" =>
        \A slot \in Slots : Field(f, slot) # NULL /\ IsLive(Field(f, slot))

\* C6 amended: a live facade holds a non-null reference of the right type in
\* each slot; an instance it created itself is live; a supplied instance is
\* live unless another facade has released it.
C6_RefsNonNull ==
    \A f \in Fid : fac[f].st = "live" =>
        \A slot \in Slots :
            /\ Field(f, slot) # NULL
            /\ heap[Field(f, slot)].type = SlotType(slot)
            /\ Arg(f, slot) = NULL => IsLive(Field(f, slot))
            /\ ~IsLive(Field(f, slot)) =>
                  \E g \in Fid \ {f} : g \in Range(rel[Field(f, slot)])

\* Two live facades were constructed with the same supplied instance, which
\* is live.
C6_Witness ==
    \E f, g \in Fid :
        /\ f # g /\ fac[f].st = "live" /\ fac[g].st = "live"
        /\ fac[f].arg1 # NULL /\ fac[f].arg1 = fac[g].arg1
        /\ RefsLive(f) /\ RefsLive(g)

\* C7 as stated: a supplied argument is stored and its slot is externally
\* owned; an omitted one is replaced by a new instance and its slot is
\* facade-owned.
C7_OwnershipTagged ==
    \A f \in Fid : Built(f) =>
        \A slot \in Slots :
            IF Arg(f, slot) # NULL
            THEN Field(f, slot) = Arg(f, slot) /\ ~Owned(f, slot)
            ELSE creator[Field(f, slot)] = f /\ Owned(f, slot)

\* C7 amended: slot by slot, a supplied argument is stored as it is and an
\* omitted one is replaced by a new instance of the slot's type created by
\* the facade; in both cases the slot is facade-owned.
C7_StoredAndOwned ==
    \A f \in Fid : Built(f) =>
        \A slot \in Slots :
            /\ IF Arg(f, slot) # NULL
               THEN Field(f, slot) = Arg(f, slot)
               ELSE /\ creator[Field(f, slot)] = f
                    /\ heap[Field(f, slot)].type = SlotType(slot)
            /\ Owned(f, slot)

\* A facade was constructed with one supplied and one omitted argument.
C7_Witness ==
    \E f \in Fid : /\ fac[f].st = "live"
                   /\ fac[f].arg1 # NULL /\ fac[f].arg2 = NULL
                   /\ creator[fac[f].subsystem1_] = CLIENT
                   /\ creator[fac[f].subsystem2_] = f

\* C8 as stated: no step leaves a facade live and takes away the liveness of
\* the instances it refers to.
C8_NoInterference ==
    [][\A g \in Fid :
          (fac[g].st = "live" /\ fac'[g].st = "live" /\ RefsLive(g))
              => RefsLive(g)']_vars

\* C8 amended: the same, for a facade that shares no instance with another
\* live facade.
C8_DisjointNoInterference ==
    [][\A g \in Fid :
          (/\ fac[g].st = "live" /\ fac'[g].st = "live" /\ RefsLive(g)
           /\ \A f \in Fid \ {g} : fac[f].st = "live" => ~Shares(f, g))
              => RefsLive(g)']_vars

\* One of two facades with separate instances has been destroyed, the other
\* one is live with live instances.
C8_Witness ==
    \E f, g \in Fid :
        /\ f # g /\ fac[f].st = "deleted" /\ fac[g].st = "live"
        /\ ~Shares(f, g) /\ RefsLive(g) /\ run = "ok"

\* C9: a step that runs Operation() leaves the heap, the facades' fields and
\* constructor arguments, the release log and the client's pointers as they
\* were, and returns the text the previous call returned.
C9_OperationFrame ==
    [][(op' # op \/ cout' # cout) =>
          /\ heap' = heap /\ fac' = fac /\ rel' = rel
          /\ creator' = creator /\ clientHolds' = clientHolds
          /\ (Returned /\ Returned') => op'.result = op.result]_vars

\* A facade on which Operation() returned has since been destroyed.
C9_Witness == Returned /\ run = "ok" /\ fac[op.self].st = "deleted"

\* C10 as stated: when main has returned, every subsystem allocated has been
\* released exactly once, every facade has been deleted, and no undefined
\* statement ran.
C10_MainReleasesAll ==
    mainPc = 0 =>
        /\ \A o \in Obj : heap[o].type # "none" => Len(rel[o]) = 1
        /\ \A f \in Fid : Built(f) => fac[f].st = "deleted"
        /\ run = "ok"

====
